---- MODULE Spec2Model ----
(***************************************************************************)
(* Model of trackanimation's time-based video-frame normalisation:         *)
(* DFTrack.time_video_normalize (tracking.py) and the helpers it calls,    *)
(* calculate_cum_time_diff and get_point_in_the_middle (utils.py).         *)
(*                                                                         *)
(* A pandas table is a record [cols, rows]: the set of its column names    *)
(* and the sequence of its rows, each row a function from the column names *)
(* to values.  The columns Latitude, Longitude, Altitude, Speed, Distance  *)
(* and FileName of a point are carried together as the column Point: a raw *)
(* sample k is [from |-> k, to |-> k, idx |-> 0]; a point synthesised      *)
(* between the samples s and e with point index p is                       *)
(* [from |-> s, to |-> e, idx |-> p], since its position, speed, distance  *)
(* and altitude are functions of the two bracketing samples, of the window *)
(* width and of the point index.                                           *)
(*                                                                         *)
(* Times are whole seconds.  The window width time_diff and the values     *)
(* computed from it are float64 values, rounded as Python rounds them.     *)
(***************************************************************************)
EXTENDS Integers, Sequences, FiniteSets, TLC

VARIABLES
    df,         \* self.df of the DFTrack under test
    call,       \* the last operation called on it, with its arguments
    ret,        \* what that operation returned (or raised)
    point_idx,  \* the local point_idx of the last time_video_normalize call when
                \* it ended (0: the call never assigned it)
    first       \* the first time_video_normalize call made, with what it returned

vars == <<df, call, ret, point_idx, first>>

\* Bounds of the model.
MaxRows == 4        \* points read into the table
MaxRowsRepeat == 3  \* the same, where repeated calls are compared
MaxDate == 1        \* point times are 0..MaxDate (seconds)
MaxTime == 2        \* time arguments are 0..MaxTime
MaxDuration == 11   \* durations of the long routes are 0..MaxDuration (seconds)

Dates == 0..MaxDate
Times == 0..MaxTime
Framerates == {1, 2}

\* The long routes are normalised with more frames: one second more, and
\* three frames a second.
Durations == 0..MaxDuration
LongTimes == 1..(MaxTime + 1)
LongFramerates == {1, 3}

\* DFTrack.__init__: the default columns (Latitude .. FileName carried as Point).
Columns == {"CodeRoute", "Point", "Date", "TimeDifference"}

RawPoint(k) == [from |-> k, to |-> k, idx |-> 0]

NoTable == [cols |-> {}, rows |-> <<>>]

(***************************************************************************)
(* ReadTrack: the table a DFTrack is built from                            *)
(***************************************************************************)

Abs(x) == IF x < 0 THEN -x ELSE x

\* read_gpx_file: one row per point of the file, in file order; the time
\* difference is taken to the previous point of the file (gpxpy returns the
\* absolute difference in seconds), and is 0 for the first point.  base is
\* the length of points_list before the file is read.
read_gpx_file(code_route, times, base) ==
    [k \in 1..Len(times) |->
        [CodeRoute      |-> code_route,
         Point          |-> RawPoint(base + k),
         Date           |-> times[k],
         TimeDifference |-> IF k = 1 THEN 0 ELSE Abs(times[k] - times[k - 1])]]

\* read_gpx: every file of the directory appended to points_list, then
\* DFTrack(self.points_list).
read_gpx(files) ==
    [cols |-> Columns,
     rows |-> IF Len(files) = 0 THEN <<>>
              ELSE IF Len(files) = 1
              THEN read_gpx_file(files[1].name, files[1].times, 0)
              ELSE read_gpx_file(files[1].name, files[1].times, 0)
                   \o read_gpx_file(files[2].name, files[2].times,
                                    Len(files[1].times))]

\* The point times of one file: any n times, in any order.
TimesOf(n) == [1..n -> Dates]

\* The directories read: none, one or two files ("a", then "b"), each with
\* at least one point, n points in all.
Directories(n) ==
    IF n = 0 THEN {<<>>}
    ELSE { <<[name |-> "a", times |-> t]>> : t \in TimesOf(n) }
         \cup UNION { { <<[name |-> "a", times |-> t], [name |-> "b", times |-> u]>> :
                          t \in TimesOf(m), u \in TimesOf(n - m) } : m \in 1..(n - 1) }

InputTables(max) == UNION { { read_gpx(d) : d \in Directories(n) } : n \in 0..max }

(***************************************************************************)
(* pandas primitives                                                       *)
(***************************************************************************)

\* DataFrame.copy(): a new table with the same columns and rows.
Copy(t) == [cols |-> t.cols, rows |-> t.rows]

\* df[name] = value on every row (adds the column, or overwrites it).
SetColumn(rows, name, value) ==
    [k \in 1..Len(rows) |->
        [c \in (DOMAIN rows[k]) \cup {name} |->
            IF c = name THEN value ELSE rows[k][c]]]

\* Position of row r in a sequence already sorted by Date: after every row
\* whose Date is not larger (rows with equal keys keep their order).
InsertByDate(r, s) ==
    LET k == Cardinality({j \in 1..Len(s) : s[j].Date <= r.Date})
    IN  SubSeq(s, 1, k) \o <<r>> \o SubSeq(s, k + 1, Len(s))

\* df.sort_values('Date')
RECURSIVE SortValues(_)
SortValues(rows) ==
    IF rows = <<>> THEN <<>>
    ELSE InsertByDate(rows[Len(rows)], SortValues(SubSeq(rows, 1, Len(rows) - 1)))

\* df['CodeRoute'].unique(): the route names in order of first appearance.
RECURSIVE Unique(_)
Unique(rows) ==
    IF rows = <<>> THEN <<>>
    ELSE LET front == Unique(SubSeq(rows, 1, Len(rows) - 1))
             name == rows[Len(rows)].CodeRoute
         IN  IF \E j \in 1..Len(front) : front[j] = name
             THEN front ELSE Append(front, name)

\* df[df['CodeRoute'] == name]
Slice(rows, name) == SelectSeq(rows, LAMBDA r : r.CodeRoute = name)

\* Series.sum() of the first k values of TimeDifference.
RECURSIVE SumTD(_, _)
SumTD(rows, k) ==
    IF k = 0 THEN 0 ELSE SumTD(rows, k - 1) + rows[k].TimeDifference

(***************************************************************************)
(* utils.calculate_cum_time_diff                                           *)
(***************************************************************************)

\* df_slice['CumTimeDiff'] = df_slice['TimeDifference'].cumsum()
CumSum(slice) ==
    [k \in 1..Len(slice) |->
        [c \in (DOMAIN slice[k]) \cup {"CumTimeDiff"} |->
            IF c = "CumTimeDiff" THEN SumTD(slice, k) ELSE slice[k][c]]]

\* Mutant: df_cum = df_slice, the concat forgotten.
CumLoopOverwrite(rows, names, j) ==
    IF names = <<>> THEN <<>> ELSE CumSum(Slice(rows, names[Len(names)]))

\* The loop over grouped: df_cum = concat([df_cum, df_slice]) for names[j..].
RECURSIVE CumLoop(_, _, _)
CumLoop(rows, names, j) ==
    IF j > Len(names) THEN <<>>
    ELSE CumSum(Slice(rows, names[j])) \o CumLoop(rows, names, j + 1)

\* Mutant: one running sum over the whole table, not restarted at each route.
calculate_cum_time_diff_flat(t) ==
    [self |-> t,
     out  |-> IF t.rows = <<>> THEN NoTable
              ELSE [cols |-> t.cols \cup {"CumTimeDiff"}, rows |-> CumSum(t.rows)]]

\* An empty input leaves df_cum = pandas.DataFrame(): no rows and no columns.
calculate_cum_time_diff(t) ==
    LET work == Copy(t)
        rows == CumLoop(work.rows, Unique(work.rows), 1)
    IN  [self |-> t,
         out  |-> IF rows = <<>> THEN NoTable
                  ELSE [cols |-> work.cols \cup {"CumTimeDiff"}, rows |-> rows]]

(***************************************************************************)
(* float64 arithmetic                                                      *)
(*                                                                         *)
(* time_diff and everything computed from it are Python floats (IEEE 754   *)
(* binary64, round to nearest, ties to even).  A non-negative float is the *)
(* record [int, frac]: its integer part and its fraction, the fraction as  *)
(* at most FracLimbs digits in base Base, most significant first, without  *)
(* zeros at the end.  Every operation computes its exact result (with a    *)
(* sticky flag for what a division cuts off) and rounds it to Precision    *)
(* significant bits.  The values of the model are far from the overflow    *)
(* and underflow thresholds.                                               *)
(***************************************************************************)

Precision == 53     \* significant bits of a float64
LimbBits == 12      \* bits of one digit of the fraction
Base == 4096        \* 2^LimbBits
FracLimbs == 6      \* digits of the fraction at most: 72 bits

\* 2^k, k in 0..LimbBits.
Pow2(k) == <<1, 2, 4, 8, 16, 32, 64, 128, 256, 512, 1024, 2048, 4096>>[k + 1]

\* The number of bits of v: 0 for 0.
RECURSIVE BitLength(_)
BitLength(v) == IF v = 0 THEN 0 ELSE 1 + BitLength(v \div 2)

\* float(c) of an integer c >= 0.
FromInt(c) == [int |-> c, frac |-> <<>>]

\* int(x), x >= 0.
Floor(x) == x.int

IsWhole(x) == x.frac = <<>>

IsZero(x) == x.int = 0 /\ IsWhole(x)

\* Digit j of a fraction.
Digit(frac, j) == IF j <= Len(frac) THEN frac[j] ELSE 0

\* The fraction without the zeros at its end.
RECURSIVE Trim(_)
Trim(frac) ==
    IF frac = <<>> \/ frac[Len(frac)] # 0 THEN frac
    ELSE Trim(SubSeq(frac, 1, Len(frac) - 1))

\* The zero bits at the head of the fraction, from digit j on.
RECURSIVE LeadingZeros(_, _)
LeadingZeros(frac, j) ==
    IF j > Len(frac) THEN 0
    ELSE IF frac[j] = 0 THEN LimbBits + LeadingZeros(frac, j + 1)
    ELSE LimbBits - BitLength(frac[j])

\* The fraction bits a float with this integer part and fraction can hold.
KeptBits(int, frac) ==
    IF int > 0 THEN Precision - BitLength(int)
    ELSE LeadingZeros(frac, 1) + Precision

\* frac (of j digits) plus one at digit j (j = 0: the integer part), the
\* carries propagated.
RECURSIVE AddOne(_, _, _)
AddOne(int, frac, j) ==
    IF j = 0 THEN [int |-> int + 1, frac |-> <<>>]
    ELSE IF frac[j] + 1 < Base
    THEN [int |-> int, frac |-> [SubSeq(frac, 1, j) EXCEPT ![j] = @ + 1]]
    ELSE AddOne(int, frac, j - 1)

\* Rounding at fraction bit kept: q whole digits and s bits of digit q + 1
\* are kept, unit is the weight of the last kept bit in digit q + 1.
\* sticky: the exact value has non-zero bits below the fraction.
\* The value is rounded up when the bits cut off are more than half a unit,
\* or half a unit and the last kept bit is odd.
RoundsUp(int, frac, sticky, q, s, unit) ==
    /\ frac[q + 1] % unit >= unit \div 2
    /\ \/ frac[q + 1] % (unit \div 2) # 0
       \/ Len(frac) > q + 1
       \/ sticky
       \/ IF s > 0 THEN (frac[q + 1] \div unit) % 2 = 1
          ELSE IF q > 0 THEN frac[q] % 2 = 1
          ELSE int % 2 = 1

\* The first q + 1 digits, the bits below the last kept bit cleared.
Cut(frac, q, unit) ==
    [SubSeq(frac, 1, q + 1) EXCEPT ![q + 1] = (@ \div unit) * unit]

\* One unit more.
Up(int, cut, q, s, unit) ==
    IF s > 0 /\ cut[q + 1] + unit < Base
    THEN [int |-> int, frac |-> [cut EXCEPT ![q + 1] = @ + unit]]
    ELSE AddOne(int, cut, q)

RoundUnit(int, frac, sticky, q, s, unit) ==
    IF RoundsUp(int, frac, sticky, q, s, unit)
    THEN Up(int, Cut(frac, q, unit), q, s, unit)
    ELSE [int |-> int, frac |-> Trim(Cut(frac, q, unit))]

\* A fraction of no more than q digits is kept as it is.
RoundAt(int, frac, sticky, q, s) ==
    IF q >= Len(frac) THEN [int |-> int, frac |-> frac]
    ELSE RoundUnit(int, frac, sticky, q, s, Pow2(LimbBits - s))

RoundKept(int, frac, sticky, kept) ==
    RoundAt(int, frac, sticky, kept \div LimbBits, kept % LimbBits)

\* Round to nearest, ties to even.
Round(int, frac, sticky) ==
    IF frac = <<>> THEN [int |-> int, frac |-> frac]
    ELSE RoundKept(int, frac, sticky, KeptBits(int, frac))

\* The digits of frac / d from digit j on, r the remainder so far: until
\* nothing is left to divide, or FracLimbs digits are there; a remainder
\* left then sets the sticky flag.
RECURSIVE DivFrac(_, _, _, _, _)
DivFrac(frac, j, r, d, acc) ==
    IF j > FracLimbs \/ (j > Len(frac) /\ r = 0)
    THEN [frac |-> Trim(acc), sticky |-> r # 0]
    ELSE DivFrac(frac, j + 1, (r * Base + Digit(frac, j)) % d, d,
                 Append(acc, (r * Base + Digit(frac, j)) \div d))

DivRounded(int, q, d) == Round(int \div d, q.frac, q.sticky)

\* x / d for an integer d > 0.
FloatDiv(x, d) == DivRounded(x.int, DivFrac(x.frac, 1, x.int % d, d, <<>>), d)

\* The digits of frac * k from digit j up, with the carry into the integer
\* part.
RECURSIVE MulFrac(_, _, _, _, _)
MulFrac(frac, j, carry, k, acc) ==
    IF j = 0 THEN [frac |-> Trim(acc), carry |-> carry]
    ELSE MulFrac(frac, j - 1, (frac[j] * k + carry) \div Base, k,
                 <<(frac[j] * k + carry) % Base>> \o acc)

MulRounded(int, p, k) == Round(int * k + p.carry, p.frac, FALSE)

\* x * k for an integer k >= 0.
FloatMul(x, k) == MulRounded(x.int, MulFrac(x.frac, Len(x.frac), 0, k, <<>>), k)

\* c + x for an integer c >= 0.
FloatAdd(c, x) == Round(c + x.int, x.frac, FALSE)

\* Comparisons of an integer c with a float x.
IntGt(c, x) == c > x.int
IntLeq(c, x) == c <= x.int
IntGeq(c, x) == c > x.int \/ (c = x.int /\ IsWhole(x))
IntLt(c, x) == c < x.int \/ (c = x.int /\ ~IsWhole(x))

(***************************************************************************)
(* utils.get_point_in_the_middle                                           *)
(***************************************************************************)

\* time_proportion = (time_diff * point_idx) / dataframe_end['TimeDifference']
time_proportion(end, time_diff, pidx) ==
    FloatDiv(FloatMul(time_diff, pidx), end.TimeDifference)

\* time_diff_proportion = dataframe_end['TimeDifference'] * time_proportion
time_diff_proportion(end, time_diff, pidx) ==
    FloatMul(time_proportion(end, time_diff, pidx), end.TimeDifference)

\* The two divisions: by dataframe_end['TimeDifference'] (time_proportion)
\* and by time_diff_proportion (speed).
MiddleDivides(end, time_diff, pidx) ==
    /\ end.TimeDifference # 0
    /\ ~IsZero(time_diff_proportion(end, time_diff, pidx))

\* The synthesised row, in the column order of df_cum: date is the start
\* date plus int(time_diff_proportion) seconds, the time difference is
\* int(time_diff), cum_time_diff is int(start cum + time_diff_proportion).
MiddlePoint(start, end, time_diff, pidx, tdp) ==
    [CodeRoute      |-> start.CodeRoute,
     Point          |-> [from |-> start.Point.from, to |-> end.Point.to, idx |-> pidx],
     Date           |-> start.Date + Floor(tdp),
     TimeDifference |-> Floor(time_diff),
     CumTimeDiff    |-> Floor(FloatAdd(start.CumTimeDiff, tdp))]

get_point_in_the_middle(start, end, time_diff, pidx) ==
    MiddlePoint(start, end, time_diff, pidx,
                time_diff_proportion(end, time_diff, pidx))

(***************************************************************************)
(* DFTrack.time_video_normalize                                            *)
(***************************************************************************)

\* Mutant: point_idx is not set again, the value of the last call is used.
StalePointIdx == point_idx

\* point_idx = 1, before the loop over the routes.
StartPointIdx == 1

\* time_diff = float((df_slice[['TimeDifference']].sum() / time) / framerate)
TimeDiff(total, time, framerate) ==
    FloatDiv(FloatDiv(FromInt(total), time), framerate)

\* Mutant: the lower bound of the window is closed too.
InWindowClosed(c, x_start, x_end) == IntGeq(c, x_start) /\ IntLeq(c, x_end)

\* Mutant: the upper bound of the window is open too.
InWindowOpen(c, x_start, x_end) == IntGt(c, x_start) /\ IntLt(c, x_end)

\* (CumTimeDiff > x_start) & (CumTimeDiff <= x_end)
InWindow(c, x_start, x_end) == IntGt(c, x_start) /\ IntLeq(c, x_end)

\* Mutant: the first of the rows at or before x_start, head(1).
StartBracketHead(slice, x_start) ==
    LET s == SelectSeq(slice, LAMBDA r : IntLeq(r.CumTimeDiff, x_start))
    IN  IF s = <<>> THEN <<>> ELSE <<s[1]>>

\* df_slice[df_slice['CumTimeDiff'] <= x_start].tail(1)
StartBracket(slice, x_start) ==
    LET s == SelectSeq(slice, LAMBDA r : IntLeq(r.CumTimeDiff, x_start))
    IN  IF s = <<>> THEN <<>> ELSE <<s[Len(s)]>>

\* Mutant: a row at x_end is an end bracket too.
EndBracketClosed(slice, x_end) ==
    LET s == SelectSeq(slice, LAMBDA r : IntGeq(r.CumTimeDiff, x_end))
    IN  IF s = <<>> THEN <<>> ELSE <<s[1]>>

\* df_slice[df_slice['CumTimeDiff'] > x_end].head(1)
EndBracket(slice, x_end) ==
    LET s == SelectSeq(slice, LAMBDA r : IntGt(r.CumTimeDiff, x_end))
    IN  IF s = <<>> THEN <<>> ELSE <<s[1]>>

\* Mutant: the frame index is off by one.
FrameTagNext(i) == i + 1

\* df_range['VideoFrame'] = i
FrameTag(i) == i

\* Mutant: the first points of the route are numbered like the first window.
FrameZeroShifted(slice) ==
    SetColumn(SelectSeq(slice, LAMBDA r : r.CumTimeDiff = 0), "VideoFrame", 1)

\* df_range = df_slice[df_slice['CumTimeDiff'] == 0]; df_range['VideoFrame'] = 0
FrameZero(slice) ==
    SetColumn(SelectSeq(slice, LAMBDA r : r.CumTimeDiff = 0), "VideoFrame", 0)

\* The empty window i: a row is synthesised when both brackets exist, and
\* point_idx counts on.
EmptyWindow(df_start, df_end, time_diff, i, st) ==
    IF df_start # <<>> /\ df_end # <<>>
    THEN IF MiddleDivides(df_end[1], time_diff, st.point_idx)
         THEN [st EXCEPT
                 !.rows = @ \o SetColumn(
                     <<get_point_in_the_middle(df_start[1], df_end[1],
                                               time_diff, st.point_idx)>>,
                     "VideoFrame", FrameTag(i)),
                 !.point_idx = @ + 1]
         ELSE [st EXCEPT !.error = "ZeroDivisionError"]
    ELSE [st EXCEPT !.point_idx = @ + 1]

\* Mutant: after a window with rows point_idx starts again at 0.
WindowRowsFromZero(slice, df_range, time_diff, x_start, x_end, i, st) ==
    IF df_range # <<>>
    THEN [st EXCEPT !.rows = @ \o SetColumn(df_range, "VideoFrame", FrameTag(i)),
                    !.point_idx = @ - @]
    ELSE EmptyWindow(StartBracket(slice, x_start), EndBracket(slice, x_end),
                     time_diff, i, st)

\* Window i with the rows df_range found in it.
WindowRows(slice, df_range, time_diff, x_start, x_end, i, st) ==
    IF df_range # <<>>
    THEN [st EXCEPT !.rows = @ \o SetColumn(df_range, "VideoFrame", FrameTag(i)),
                    !.point_idx = 1]
    ELSE EmptyWindow(StartBracket(slice, x_start), EndBracket(slice, x_end),
                     time_diff, i, st)

\* Window i with its bounds x_start and x_end.
WindowAt(slice, time_diff, x_start, x_end, i, st) ==
    WindowRows(slice,
               SelectSeq(slice, LAMBDA r : InWindow(r.CumTimeDiff, x_start, x_end)),
               time_diff, x_start, x_end, i, st)

\* One pass of the loop over i: st is [rows, point_idx, error], the table
\* df_norm built so far, the running point_idx and the exception raised.
\* x_start = time_diff * (i - 1), x_end = time_diff * i.
WindowStep(slice, time_diff, i, st) ==
    WindowAt(slice, time_diff, FloatMul(time_diff, i - 1), FloatMul(time_diff, i),
             i, st)

\* for i in range(1, n_fps + 1)
RECURSIVE WindowLoop(_, _, _, _, _)
WindowLoop(slice, time_diff, n_fps, i, st) ==
    IF i > n_fps \/ st.error # "none" THEN st
    ELSE WindowLoop(slice, time_diff, n_fps, i + 1,
                    WindowStep(slice, time_diff, i, st))

\* The frame-0 rows of the route df_slice, then its windows.
RouteWindows(df_slice, time, framerate, st) ==
    WindowLoop(df_slice,
               TimeDiff(SumTD(df_slice, Len(df_slice)), time, framerate),
               time * framerate, 1,
               [st EXCEPT !.rows = @ \o FrameZero(df_slice)])

\* for name in grouped
RECURSIVE RouteLoop(_, _, _, _, _, _)
RouteLoop(cum, names, j, time, framerate, st) ==
    IF j > Len(names) \/ st.error # "none" THEN st
    ELSE RouteLoop(cum, names, j + 1, time, framerate,
                   RouteWindows(Slice(cum, names[j]), time, framerate, st))

\* Mutant: the table is sorted before time == 0 is looked at.
NormalizeZeroSorted(t) ==
    [self |-> t,
     out  |-> [cols |-> t.cols \cup {"VideoFrame"},
               rows |-> SetColumn(SortValues(t.rows), "VideoFrame", 0)],
     error |-> "none", point_idx |-> 0]

\* Mutant: df = self.df without copy(): the column is added to self.df.
NormalizeZeroInPlace(t) ==
    LET work == [cols |-> t.cols \cup {"VideoFrame"},
                 rows |-> SetColumn(t.rows, "VideoFrame", 0)]
    IN  [self |-> work, out |-> work, error |-> "none", point_idx |-> 0]

\* The time == 0 branch: df['VideoFrame'] = 0 on the copy, nothing else.
NormalizeZero(t) ==
    LET work == Copy(t)
    IN  [self |-> t,
         out  |-> [cols |-> work.cols \cup {"VideoFrame"},
                   rows |-> SetColumn(work.rows, "VideoFrame", 0)],
         error |-> "none", point_idx |-> 0]

\* The general branch.  On an empty table df_cum has no columns, and
\* df_cum['CodeRoute'] raises KeyError.
NormalizeWindows(t, time, framerate) ==
    LET work   == Copy(t)
        sorted == [cols |-> work.cols, rows |-> SortValues(work.rows)]
        df_cum == calculate_cum_time_diff(sorted).out
    IN  IF "CodeRoute" \notin df_cum.cols
        THEN [self |-> t, out |-> NoTable, error |-> "KeyError",
              point_idx |-> StartPointIdx]
        ELSE LET st == RouteLoop(df_cum.rows, Unique(df_cum.rows), 1, time,
                         framerate,
                         [rows |-> <<>>, point_idx |-> StartPointIdx,
                          error |-> "none"])
             IN  IF st.error # "none"
                 THEN [self |-> t, out |-> NoTable, error |-> st.error,
                       point_idx |-> st.point_idx]
                 ELSE [self |-> t,
                       out  |-> [cols |-> df_cum.cols \cup {"VideoFrame"},
                                 rows |-> st.rows],
                       error |-> "none", point_idx |-> st.point_idx]

time_video_normalize(t, time, framerate) ==
    IF time = 0 THEN NormalizeZero(t) ELSE NormalizeWindows(t, time, framerate)

(***************************************************************************)
(* The state machine: one DFTrack, and the calls made on it.               *)
(***************************************************************************)

NoCall == [op |-> "none", time |-> 0, framerate |-> 0, sorted |-> FALSE]
NoReturn == [error |-> "none", table |-> NoTable]

\* first, before any time_video_normalize call; and where the calls are not
\* recorded.  other: a call with other arguments has followed the first one.
NotYet == [call |-> NoCall, ret |-> NoReturn, other |-> FALSE]
NotRecorded == [NotYet EXCEPT !.call.op = "unrecorded"]

\* A DFTrack read from a directory; no call made yet (point_idx does not
\* exist yet: 0).
Init ==
    /\ df \in InputTables(MaxRows)
    /\ call = NoCall
    /\ ret = NoReturn
    /\ point_idx = 0
    /\ first = NotRecorded

InitRepeat ==
    /\ df \in InputTables(MaxRowsRepeat)
    /\ call = NoCall
    /\ ret = NoReturn
    /\ point_idx = 0
    /\ first = NotYet

\* dft.time_video_normalize(time, framerate)
TimeVideoNormalize ==
    \E time \in Times, framerate \in Framerates :
      \E r \in {time_video_normalize(df, time, framerate)} :
        LET c == [op |-> "time_video_normalize", time |-> time,
                  framerate |-> framerate, sorted |-> FALSE]
            v == [error |-> r.error, table |-> r.out]
        IN  /\ df' = r.self
            /\ call' = c
            /\ ret' = v
            /\ point_idx' = r.point_idx
            /\ first' = IF first = NotYet
                        THEN [call |-> c, ret |-> v, other |-> FALSE]
                        ELSE IF first # NotRecorded /\ c # first.call
                        THEN [first EXCEPT !.other = TRUE]
                        ELSE first

\* trk_utils.calculate_cum_time_diff(df), on the DFTrack's table as it is or
\* sorted by Date first (as time_video_normalize calls it).
CalculateCumTimeDiff ==
    \E sorted \in BOOLEAN :
      \E r \in {calculate_cum_time_diff(
                     IF sorted THEN [cols |-> df.cols, rows |-> SortValues(df.rows)]
                     ELSE df)} :
            /\ df' = IF sorted THEN df ELSE r.self
            /\ call' = [op |-> "calculate_cum_time_diff", time |-> 0,
                        framerate |-> 0, sorted |-> sorted]
            /\ ret' = [error |-> "none", table |-> r.out]
            /\ UNCHANGED <<point_idx, first>>

Next == TimeVideoNormalize \/ CalculateCumTimeDiff

\* time_video_normalize calls on a DFTrack.
Spec == Init /\ [][TimeVideoNormalize]_vars

\* calculate_cum_time_diff calls on its table.
SpecCum == Init /\ [][CalculateCumTimeDiff]_vars

\* Any sequence of both calls, the first time_video_normalize call recorded.
SpecRepeat == InitRepeat /\ [][Next]_vars

(***************************************************************************)
(* TrackException, DFTrack.set_colors and DFTrack.sort_columns             *)
(***************************************************************************)

\* What a call that raises no exception reports.
NoMessage == <<>>

\* TrackException(*args): __init__(self, msg, original_exception) builds the
\* message msg + ": %s" % original_exception.  Called with one argument,
\* Python raises TypeError before __init__ runs, and that is what propagates.
TrackException(args) ==
    IF Len(args) = 2
    THEN [error |-> "TrackException", msg |-> <<args[1], ": ">> \o args[2]]
    ELSE [error |-> "TypeError",
          msg   |-> <<"__init__() missing 1 required positional argument",
                      ": ", "'", "original_exception", "'">>]

\* "'%s'" % column_name
Quoted(name) == <<"'", name, "'">>

\* calculate_rgb(value, minimum, maximum): the colour in 255ths.  ratio is
\* 2 * (value - minimum) / (maximum - minimum), or 0 when the two are equal;
\* int() of a non-negative value is \div.
calculate_rgb(value, minimum, maximum) ==
    LET d  == maximum - minimum
        \* 255 * (1 - ratio) and 255 * (ratio - 1), each multiplied by d
        nb == IF d = 0 THEN 255 ELSE 255 * (d - 2 * (value - minimum))
        nr == IF d = 0 THEN 0 - 255 ELSE 255 * (2 * (value - minimum) - d)
        dd == IF d = 0 THEN 1 ELSE d
        b  == IF nb > 0 THEN nb \div dd ELSE 0
        r  == IF nr > 0 THEN nr \div dd ELSE 0
    IN  <<r, 255 - b - r, b>>

\* Series.min() and Series.max() of a column (0 stands for nan on no rows).
ColumnMin(rows, name) ==
    IF rows = <<>> THEN 0
    ELSE CHOOSE v \in {rows[k][name] : k \in 1..Len(rows)} :
             \A k \in 1..Len(rows) : v <= rows[k][name]

ColumnMax(rows, name) ==
    IF rows = <<>> THEN 0
    ELSE CHOOSE v \in {rows[k][name] : k \in 1..Len(rows)} :
             \A k \in 1..Len(rows) : v >= rows[k][name]

\* df['Color'] = df[column_name].apply(calculate_rgb, minimum=min, maximum=max)
ApplyColor(rows, name) ==
    [k \in 1..Len(rows) |->
        [c \in (DOMAIN rows[k]) \cup {"Color"} |->
            IF c = "Color"
            THEN calculate_rgb(rows[k][name], ColumnMin(rows, name),
                               ColumnMax(rows, name))
            ELSE rows[k][c]]]

\* The loop over grouped in set_colors: df_colors = concat([df_colors, df_slice]).
RECURSIVE ColorLoop(_, _, _, _)
ColorLoop(rows, names, j, column_name) ==
    IF j > Len(names) THEN <<>>
    ELSE ApplyColor(Slice(rows, names[j]), column_name)
         \o ColorLoop(rows, names, j + 1, column_name)

\* set_colors: the membership test first, then the colours on a copy, route
\* by route or over the whole table.  With no route, df_colors stays
\* pandas.DataFrame(): no rows and no columns.
set_colors(t, column_name, individual_tracks) ==
    IF column_name \notin t.cols
    THEN LET e == TrackException(<<"Column name not found", Quoted(column_name)>>)
         IN  [self |-> t, out |-> NoTable, error |-> e.error, msg |-> e.msg]
    ELSE LET work == Copy(t)
             rows == IF individual_tracks
                     THEN ColorLoop(work.rows, Unique(work.rows), 1, column_name)
                     ELSE ApplyColor(work.rows, column_name)
         IN  [self |-> t,
              out  |-> IF individual_tracks /\ rows = <<>> THEN NoTable
                       ELSE [cols |-> work.cols \cup {"Color"}, rows |-> rows],
              error |-> "none", msg |-> NoMessage]

\* Row r comes before or with row s in the order of the keys list_columns.
RECURSIVE KeyLeq(_, _, _, _)
KeyLeq(r, s, list_columns, j) ==
    IF j > Len(list_columns) THEN TRUE
    ELSE IF r[list_columns[j]] < s[list_columns[j]] THEN TRUE
    ELSE IF r[list_columns[j]] > s[list_columns[j]] THEN FALSE
    ELSE KeyLeq(r, s, list_columns, j + 1)

\* df.sort_values(list_columns): rows with equal keys keep their order.
RECURSIVE SortValuesBy(_, _)
SortValuesBy(rows, list_columns) ==
    IF rows = <<>> THEN <<>>
    ELSE LET r == rows[Len(rows)]
             s == SortValuesBy(SubSeq(rows, 1, Len(rows) - 1), list_columns)
             k == Cardinality({j \in 1..Len(s) : KeyLeq(s[j], r, list_columns, 1)})
         IN  SubSeq(s, 1, k) \o <<r>> \o SubSeq(s, k + 1, Len(s))

\* The first name of list_columns that is not a column: the key of the
\* KeyError sort_values raises.
MissingKeys(t, list_columns) ==
    SelectSeq(list_columns, LAMBDA c : c \notin t.cols)

\* sort_columns: except KeyError as exception: raise TrackException(exception).
sort_columns(t, list_columns) ==
    IF MissingKeys(t, list_columns) # <<>>
    THEN LET exception == Quoted(MissingKeys(t, list_columns)[1])
             e == TrackException(<<exception>>)
         IN  [self |-> t, out |-> NoTable, error |-> e.error, msg |-> e.msg]
    ELSE [self |-> t,
          out  |-> [cols |-> t.cols, rows |-> SortValuesBy(t.rows, list_columns)],
          error |-> "none", msg |-> NoMessage]

\* The column names given to set_colors and sort_columns: two columns of the
\* table and a name that is no column.
ColumnNames == {"Date", "TimeDifference", "Elevation"}

\* The lists given to sort_columns: one or two different names.
ColumnLists ==
    { <<c>> : c \in ColumnNames }
    \cup UNION { { <<c, d>> : d \in ColumnNames \ {c} } : c \in ColumnNames }

\* dft.set_colors(column_name, individual_tracks)
SetColors ==
    \E column_name \in ColumnNames, individual_tracks \in BOOLEAN :
      \E r \in {set_colors(df, column_name, individual_tracks)} :
        /\ df' = r.self
        /\ call' = [op |-> "set_colors", columns |-> <<column_name>>,
                    individual_tracks |-> individual_tracks]
        /\ ret' = [error |-> r.error, table |-> r.out, msg |-> r.msg]
        /\ UNCHANGED <<point_idx, first>>

\* dft.sort_columns(list_columns)
SortColumns ==
    \E list_columns \in ColumnLists :
      \E r \in {sort_columns(df, list_columns)} :
        /\ df' = r.self
        /\ call' = [op |-> "sort_columns", columns |-> list_columns,
                    individual_tracks |-> FALSE]
        /\ ret' = [error |-> r.error, table |-> r.out, msg |-> r.msg]
        /\ UNCHANGED <<point_idx, first>>

\* set_colors and sort_columns calls on a DFTrack.
SpecColumns == Init /\ [][SetColors \/ SortColumns]_vars

(***************************************************************************)
(* DFTrack.get_tracks_by_place                                             *)
(***************************************************************************)

\* A bounding box is the set of the samples (Point.from) strictly inside it:
\* Latitude and Longitude are carried in Point.
Boxes == {{1}, {2, 3}}

\* What a geocoder answers: nothing (GeopyError), or the box of the place.
NotFound == [found |-> FALSE, box |-> {}]
Answers == {NotFound} \cup {[found |-> TRUE, box |-> b] : b \in Boxes}

\* The parameters a call can name, after self.
GoogleParameters == {"string_location", "timeout"}
OsmParameters == {"string_location", "timeout"}

\* The keyword arguments get_tracks_by_place gives to both lookups:
\* timeout=timeout, only_points=only_points.
LookupKeywords == {"timeout", "only_points"}

\* Python binds the keyword arguments of a call to the parameters of the
\* function, and raises TypeError for a keyword that is no parameter.
Binds(parameters, keywords) == keywords \subseteq parameters

\* get_coordinates_from_google: None on GeopyError, else dict_coordinates.
get_coordinates_from_google(answer) == answer

\* get_tracks_by_place_osm: None on GeopyError, else dict_coordinates.
get_tracks_by_place_osm(answer) == answer

\* calculate_dataframe_tracks: the rows inside the box, or every row of the
\* routes that have a row inside it.
calculate_dataframe_tracks(t, dict_coordinates, only_points) ==
    LET df_place   == SelectSeq(t.rows, LAMBDA r : r.Point.from \in dict_coordinates.box)
        track_list == {df_place[k].CodeRoute : k \in 1..Len(df_place)}
    IN  [cols |-> t.cols,
         rows |-> IF only_points THEN df_place
                  ELSE SelectSeq(t.rows, LAMBDA r : r.CodeRoute \in track_list)]

\* What get_tracks_by_place returns or raises: returns is "DFTrack", "None"
\* or "nothing" (an exception left the function).
Raises(t, error, msg) ==
    [self |-> t, out |-> NoTable, error |-> error, msg |-> msg, returns |-> "nothing"]

ReturnsNone(t) ==
    [self |-> t, out |-> NoTable, error |-> "none", msg |-> NoMessage, returns |-> "None"]

UnexpectedKeyword(t, function) ==
    Raises(t, "TypeError",
           <<function, "() got an unexpected keyword argument ", "'", "only_points", "'">>)

\* get_tracks_by_place: the Google lookup; None when it finds nothing; then
\* the OSM lookup, whose answer replaces Google's; None when it finds
\* nothing; then the rows of the box.
get_tracks_by_place(t, google, osm, only_points) ==
    IF ~Binds(GoogleParameters, LookupKeywords)
    THEN UnexpectedKeyword(t, "get_coordinates_from_google")
    ELSE IF ~get_coordinates_from_google(google).found
    THEN ReturnsNone(t)
    ELSE IF ~Binds(OsmParameters, LookupKeywords)
    THEN UnexpectedKeyword(t, "get_tracks_by_place_osm")
    ELSE IF ~get_tracks_by_place_osm(osm).found
    THEN ReturnsNone(t)
    ELSE [self |-> t,
          out  |-> calculate_dataframe_tracks(t, get_tracks_by_place_osm(osm),
                                              only_points),
          error |-> "none", msg |-> NoMessage, returns |-> "DFTrack"]

\* dft.get_tracks_by_place(string_location, only_points=only_points), with
\* what the two geocoders answer for the place.
GetTracksByPlace ==
    \E google \in Answers, osm \in Answers, only_points \in BOOLEAN :
      \E r \in {get_tracks_by_place(df, google, osm, only_points)} :
        /\ df' = r.self
        /\ call' = [op |-> "get_tracks_by_place", google |-> google,
                    osm |-> osm, only_points |-> only_points]
        /\ ret' = [error |-> r.error, table |-> r.out, msg |-> r.msg,
                   returns |-> r.returns]
        /\ UNCHANGED <<point_idx, first>>

\* get_tracks_by_place calls on a DFTrack.
SpecPlace == Init /\ [][GetTracksByPlace]_vars

(***************************************************************************)
(* Long routes: time_video_normalize with more frames                      *)
(***************************************************************************)

\* The directories of the long routes: a file "a" with two points, up to
\* MaxDuration seconds apart, alone or followed by a file "b" with three
\* points a second apart.
LongDirectories ==
    { <<[name |-> "a", times |-> <<d, e>>]>> : d \in Durations, e \in Durations }
    \cup { <<[name |-> "a", times |-> <<d, e>>], [name |-> "b", times |-> <<0, 1, 2>>]>> :
               d \in Durations, e \in Durations }

\* A DFTrack read from one of these directories.
InitLong ==
    /\ df \in { read_gpx(d) : d \in LongDirectories }
    /\ call = NoCall
    /\ ret = NoReturn
    /\ point_idx = 0
    /\ first = NotRecorded

\* dft.time_video_normalize(time, framerate), time > 0
TimeVideoNormalizeLong ==
    \E time \in LongTimes, framerate \in LongFramerates :
      \E r \in {time_video_normalize(df, time, framerate)} :
        /\ df' = r.self
        /\ call' = [op |-> "time_video_normalize", time |-> time,
                    framerate |-> framerate, sorted |-> FALSE]
        /\ ret' = [error |-> r.error, table |-> r.out]
        /\ point_idx' = r.point_idx
        /\ UNCHANGED first

\* time_video_normalize calls on a long route.
SpecLong == InitLong /\ [][TimeVideoNormalizeLong]_vars

(***************************************************************************)
(* AnimationTrack.make_video                                               *)
(***************************************************************************)

MaxPoints == 4      \* rows of the table of an AnimationTrack
MaxFrame == 2       \* their VideoFrame (or Date) values are 0..MaxFrame

\* AnimationTrack.__init__ sorts self.dft by VideoFrame when the tables have
\* that column, else by Date: the values of the sort key, row by row.
SortedKeys(n) ==
    {f \in [1..n -> 0..MaxFrame] : \A k \in 1..(n - 1) : f[k] <= f[k + 1]}

\* self.dft of an AnimationTrack built from normalised tables ...
FrameTable(f) ==
    [cols |-> Columns \cup {"CumTimeDiff", "VideoFrame", "Axes"},
     rows |-> [k \in 1..Len(f) |->
                  [CodeRoute |-> "a", Point |-> RawPoint(k), Date |-> 0,
                   VideoFrame |-> f[k]]]]

\* ... and from tables that were not normalised.
DateTable(f) ==
    [cols |-> Columns \cup {"Axes"},
     rows |-> [k \in 1..Len(f) |->
                  [CodeRoute |-> "a", Point |-> RawPoint(k), Date |-> f[k]]]]

AnimationTables ==
    UNION { { FrameTable(f) : f \in SortedKeys(n) }
            \cup { DateTable(f) : f \in SortedKeys(n) } : n \in 0..MaxPoints }

\* fillvalue=None of zip_longest
None == [CodeRoute |-> "None"]

\* generate_points: the pair (point, next_point) number k of
\* zip_longest(list_dict_points, list_dict_points[1:], fillvalue=None).
generate_points(rows, k) ==
    [point |-> rows[k],
     next_point |-> IF k + 1 <= Len(rows) THEN rows[k + 1] ELSE None]

check_frame_new(point, next_point) ==
    IF next_point # None
    THEN IF "VideoFrame" \in DOMAIN point
         THEN point.VideoFrame # next_point.VideoFrame
         ELSE point.Date # next_point.Date
    ELSE FALSE

\* The names the expression PIL.Imagefrombytes is looked up in: the
\* submodules of the PIL package that are loaded (matplotlib loads Image).
PILNames == {"Image", "PngImagePlugin"}

\* The body of the if in make_video: the canvas is drawn
\* and PIL.Imagefrombytes(...) is evaluated, which raises AttributeError
\* when the PIL package has no such name; else the image of the points
\* plotted so far is written to the pipe.
write_image(progress, plotted) ==
    IF "Imagefrombytes" \in PILNames
    THEN [progress EXCEPT !.written = Append(@, plotted)]
    ELSE [progress EXCEPT !.error = "AttributeError"]

\* One pass of the loop of make_video: generate_points plots the point and
\* yields the pair, check_frame_new decides whether an image is written.
make_video_step(rows, progress) ==
    LET pair == generate_points(rows, progress.pos + 1)
        plotted == [progress EXCEPT !.pos = @ + 1]
    IN  IF check_frame_new(pair.point, pair.next_point)
        THEN write_image(plotted, plotted.pos)
        ELSE plotted

\* An AnimationTrack; no call made yet.
InitVideo ==
    /\ df \in AnimationTables
    /\ call = NoCall
    /\ ret = NoReturn
    /\ point_idx = 0
    /\ first = NotRecorded

\* make_video is running: called, and neither finished nor left by an
\* exception.
Running == call.op = "make_video" /\ ret.error = "none" /\ ~ret.closed

\* anim.make_video(): the pipe to ffmpeg is opened, the lines are cleared.
MakeVideo ==
    /\ ~Running
    /\ call' = [op |-> "make_video"]
    /\ ret' = [error |-> "none", table |-> NoTable, pos |-> 0,
               written |-> <<>>, closed |-> FALSE]
    /\ UNCHANGED <<df, point_idx, first>>

\* for point, next_point in self.generate_points(lw=lw)
NextPoint ==
    /\ Running
    /\ ret.pos < Len(df.rows)
    /\ ret' = make_video_step(df.rows, ret)
    /\ UNCHANGED <<df, call, point_idx, first>>

\* pipe.stdin.close(), after the last pair
CloseVideo ==
    /\ Running
    /\ ret.pos = Len(df.rows)
    /\ ret' = [ret EXCEPT !.closed = TRUE]
    /\ UNCHANGED <<df, call, point_idx, first>>

\* make_video calls on an AnimationTrack.
SpecVideo == InitVideo /\ [][MakeVideo \/ NextPoint \/ CloseVideo]_vars

(***************************************************************************)
(* Vocabulary of the properties                                            *)
(***************************************************************************)

IsNormalize == call.op = "time_video_normalize"
IsCum == call.op = "calculate_cum_time_diff"
Returned == ret.error = "none"

\* A time_video_normalize call with time > 0 that returned a table.
Windowed == IsNormalize /\ call.time > 0 /\ Returned

NFrames == call.time * call.framerate
Out == ret.table.rows

RouteNames(rows) == {rows[k].CodeRoute : k \in 1..Len(rows)}

\* The input as time_video_normalize sees it: sorted by Date, with the
\* elapsed time of every point.
Seen == calculate_cum_time_diff([cols |-> df.cols, rows |-> SortValues(df.rows)]).out.rows

\* The points of route R in Date order, and the duration of the route.
RoutePoints(R) == Slice(Seen, R)
Total(R) == SumTD(RoutePoints(R), Len(RoutePoints(R)))

\* The raw points among pts whose elapsed time c lies in window i:
\* w*(i-1) < c <= w*i with w = total / NFrames.
RawInWindow(pts, total, i) ==
    {k \in 1..Len(pts) :
        /\ total * (i - 1) < pts[k].CumTimeDiff * NFrames
        /\ pts[k].CumTimeDiff * NFrames <= total * i}

\* The raw points among pts that the window test of the code finds in
\* window i: x_start < c <= x_end with the float64 bounds
\* x_start = time_diff * (i - 1) and x_end = time_diff * i.
RawInFloatWindow(pts, total, i) ==
    {k \in 1..Len(pts) :
        /\ IntGt(pts[k].CumTimeDiff,
                 FloatMul(TimeDiff(total, call.time, call.framerate), i - 1))
        /\ IntLeq(pts[k].CumTimeDiff,
                  FloatMul(TimeDiff(total, call.time, call.framerate), i))}

\* The output rows of route R tagged with frame i.
OutRows(R, i) ==
    {k \in 1..Len(Out) : Out[k].CodeRoute = R /\ Out[k].VideoFrame = i}

Synthesized(rows) == \E k \in 1..Len(rows) : rows[k].Point.idx > 0

(***************************************************************************)
(* C1                                                                      *)
(***************************************************************************)

\* C1 (as stated): after time_video_normalize with time > 0, each
\* (route, video_frame) pair occurs on at most one output row; stated here
\* for the frames of the windows, 1..time*framerate, the case the claim
\* singles out (several raw points of one route in the same window).
C1_AtMostOneRowPerFrame ==
    Windowed =>
        \A R \in RouteNames(df.rows), i \in 1..NFrames :
            Cardinality(OutRows(R, i)) <= 1

\* C1 (amended): a frame i >= 1 of a route whose window, with the float64
\* bounds the code computes, holds raw points has exactly those raw points
\* as its rows, all of them; a frame whose window is empty has at most one
\* row, a synthesised one; frame 0 has the raw points with elapsed time 0.
C1_RowsPerFrame ==
    Windowed =>
        \A R \in RouteNames(df.rows) :
            LET pts == RoutePoints(R)
                total == SumTD(pts, Len(pts))
            IN  /\ Cardinality(OutRows(R, 0)) =
                     Cardinality({k \in 1..Len(pts) : pts[k].CumTimeDiff = 0})
                /\ \A i \in 1..NFrames :
                     LET raw == RawInFloatWindow(pts, total, i)
                         out == OutRows(R, i)
                     IN  IF raw # {}
                         THEN /\ Cardinality(out) = Cardinality(raw)
                              /\ \A k \in out : Out[k].Point.idx = 0
                         ELSE /\ Cardinality(out) <= 1
                              /\ \A k \in out : Out[k].Point.idx > 0

\* Several raw points of one route fell in one window, and all were emitted.
C1_Witness ==
    /\ Windowed
    /\ \E R \in RouteNames(df.rows), i \in 1..NFrames :
          /\ Cardinality(RawInWindow(RoutePoints(R), Total(R), i)) >= 2
          /\ Cardinality(OutRows(R, i)) >= 2

(***************************************************************************)
(* C2                                                                      *)
(***************************************************************************)

C3_FrameZeroAnchor ==
    (Windowed /\ \A R \in RouteNames(df.rows) :
                    RoutePoints(R)[1].TimeDifference = 0)
    => \A R \in RouteNames(df.rows) : OutRows(R, 0) # {}

\* Two routes, each with its anchor in frame 0 and rows in later frames.
C3_Witness ==
    /\ Windowed
    /\ Cardinality(RouteNames(df.rows)) = 2
    /\ \A R \in RouteNames(df.rows) :
          /\ RoutePoints(R)[1].TimeDifference = 0
          /\ OutRows(R, 0) # {}
          /\ OutRows(R, NFrames) # {}

(***************************************************************************)
(* C4                                                                      *)
(***************************************************************************)

C4_Witness ==
    /\ Windowed
    /\ \E R1, R2 \in RouteNames(df.rows) :
          /\ Total(R1) > 0 /\ Total(R2) > Total(R1)
          /\ Len(RoutePoints(R1)) # Len(RoutePoints(R2))
          /\ OutRows(R1, NFrames) # {} /\ OutRows(R2, NFrames) # {}

(***************************************************************************)
(* C5                                                                      *)
(***************************************************************************)

\* C5: every row time_video_normalize returns has an integer VideoFrame with
\* 0 <= VideoFrame <= time * framerate.
C5_FrameBound ==
    (IsNormalize /\ Returned) =>
        \A k \in 1..Len(Out) : Out[k].VideoFrame \in 0..(call.time * call.framerate)

\* Rows in the first and in the last frame of a call with several frames.
C5_Witness ==
    /\ Windowed /\ NFrames > 1
    /\ \E j, k \in 1..Len(Out) :
          Out[j].VideoFrame = 0 /\ Out[k].VideoFrame = NFrames

(***************************************************************************)
(* C6                                                                      *)
(***************************************************************************)

\* C6: time_video_normalize(0, f) returns the input rows in the input order,
\* every original field unchanged, each with VideoFrame = 0.
C6_ZeroDuration ==
    (IsNormalize /\ call.time = 0) =>
        /\ Returned
        /\ ret.table.cols = df.cols \cup {"VideoFrame"}
        /\ Len(Out) = Len(df.rows)
        /\ \A k \in 1..Len(Out) :
              /\ DOMAIN Out[k] = df.cols \cup {"VideoFrame"}
              /\ \A c \in df.cols : Out[k][c] = df.rows[k][c]
              /\ Out[k].VideoFrame = 0

\* A call with time = 0 and framerate 2 on a table that is not in Date order.
C6_Witness ==
    /\ IsNormalize /\ call.time = 0 /\ call.framerate = 2 /\ Returned
    /\ Len(Out) = Len(df.rows)
    /\ \E j, k \in 1..Len(df.rows) : j < k /\ df.rows[j].Date > df.rows[k].Date

(***************************************************************************)
(* C7                                                                      *)
(***************************************************************************)

\* The table calculate_cum_time_diff was called with.
In == IF call.sorted THEN SortValues(df.rows) ELSE df.rows

\* Where the sample of output row k stands in the input.
PosIn(k) == CHOOSE j \in 1..Len(In) : In[j].Point = Out[k].Point

\* Where route R first appears in the input.
FirstPos(R) ==
    CHOOSE j \in 1..Len(In) :
        In[j].CodeRoute = R /\ \A h \in 1..(j - 1) : In[h].CodeRoute # R

\* C7 (as stated): calculate_cum_time_diff returns the rows of its input in
\* the same order, for every input table.
C7_SameOrder ==
    IsCum =>
        /\ Len(Out) = Len(In)
        /\ \A k \in 1..Len(Out) : \A c \in df.cols : Out[k][c] = In[k][c]

\* C7 (amended): every input row is returned exactly once, its fields
\* unchanged and CumTimeDiff added; the rows of one route keep their input
\* order, and the routes follow each other in the order of their first
\* appearance in the input.
C7_GroupedByRoute ==
    IsCum =>
        /\ Len(Out) = Len(In)
        /\ \A j \in 1..Len(In) : \E k \in 1..Len(Out) : Out[k].Point = In[j].Point
        /\ \A k \in 1..Len(Out) :
              /\ DOMAIN Out[k] = df.cols \cup {"CumTimeDiff"}
              /\ \A c \in df.cols : Out[k][c] = In[PosIn(k)][c]
        /\ \A j, k \in 1..Len(Out) :
              j < k =>
                 IF Out[j].CodeRoute = Out[k].CodeRoute
                 THEN PosIn(j) < PosIn(k)
                 ELSE FirstPos(Out[j].CodeRoute) < FirstPos(Out[k].CodeRoute)

\* The rows of two routes were interleaved in the input, and the output
\* groups them.
C7_Witness ==
    /\ IsCum /\ Len(Out) = Len(In)
    /\ \E h, j, k \in 1..Len(In) :
          /\ h < j /\ j < k
          /\ In[h].CodeRoute = In[k].CodeRoute
          /\ In[h].CodeRoute # In[j].CodeRoute
    /\ \E k \in 1..Len(Out) : PosIn(k) # k

(***************************************************************************)
(* C8                                                                      *)
(***************************************************************************)

\* C8: in the output of calculate_cum_time_diff, for every route in row
\* order: CumTimeDiff of the first row is 0 when the TimeDifference of the
\* route's first point is 0, CumTimeDiff never decreases, and CumTimeDiff of
\* the last row is the sum of the route's TimeDifference values.
C8_CumulativeMonotone ==
    IsCum =>
        \A R \in RouteNames(In) :
            LET s == Slice(Out, R)
                i == Slice(In, R)
            IN  /\ Len(s) = Len(i)
                /\ i[1].TimeDifference = 0 => s[1].CumTimeDiff = 0
                /\ \A k \in 1..(Len(s) - 1) : s[k].CumTimeDiff <= s[k + 1].CumTimeDiff
                /\ s[Len(s)].CumTimeDiff = SumTD(i, Len(i))

\* Two routes with interleaved rows, each starting at TimeDifference 0 and
\* lasting more than 0 seconds.
C8_Witness ==
    /\ IsCum /\ Cardinality(RouteNames(In)) = 2
    /\ \E k \in 1..Len(Out) : PosIn(k) # k
    /\ \A R \in RouteNames(In) :
          /\ Slice(In, R)[1].TimeDifference = 0
          /\ Slice(Out, R)[1].CumTimeDiff = 0
          /\ Slice(Out, R)[Len(Slice(Out, R))].CumTimeDiff > 0

(***************************************************************************)
(* C9                                                                      *)
(***************************************************************************)

IsColumnCall == call.op \in {"set_colors", "sort_columns"}

\* The names given to the call that are no column of the table.
BadColumns == {call.columns[k] : k \in {j \in 1..Len(call.columns) :
                                           call.columns[j] \notin df.cols}}

\* The message of the exception holds the name.
NamesColumn(name) == \E k \in 1..Len(ret.msg) : ret.msg[k] = name

\* C11: a set_colors or sort_columns call given a name that is no column of
\* the table ends in a TrackException whose message names a bad column,
\* returns no table, and leaves the DFTrack's table as it was.
C11_ConfigurationError ==
    [][(IsColumnCall' /\ BadColumns' # {}) =>
           /\ ret'.error = "TrackException"
           /\ \E name \in BadColumns' : NamesColumn(name)'
           /\ ret'.table = NoTable
           /\ df' = df]_vars

(***************************************************************************)
(* C12                                                                     *)
(***************************************************************************)

IsPlaceCall == call.op = "get_tracks_by_place"

\* The box the lookups found: Google's, or OpenStreetMap's when Google found
\* nothing.
FoundBox == IF call.google.found THEN call.google ELSE call.osm

\* C12: get_tracks_by_place returns None exactly when neither Google nor
\* OpenStreetMap finds the place, and otherwise returns the DFTrack filtered
\* by the box that was found (OpenStreetMap's when Google finds nothing).
C12_GeocoderFallback ==
    IsPlaceCall =>
        IF ~call.google.found /\ ~call.osm.found
        THEN ret.returns = "None"
        ELSE /\ ret.returns = "DFTrack"
             /\ ret.table = calculate_dataframe_tracks(df, FoundBox, call.only_points)

(***************************************************************************)
(* C13                                                                     *)
(***************************************************************************)

\* The number of consecutive windows of a route without a raw point that end
\* at window i (window i itself has none).
EmptyRun(pts, total, i) ==
    LET full == {j \in 1..(i - 1) : RawInWindow(pts, total, j) # {}}
    IN  IF full = {} THEN i
        ELSE i - (CHOOSE j \in full : \A h \in full : h <= j)

Sample(pts, id) == pts[CHOOSE j \in 1..Len(pts) : pts[j].Point.from = id]

RawRows(p) == {k \in 1..Len(Out) : Out[k].Point = p}

\* The frame of elapsed time c on a route of duration total: 0 for c = 0,
\* else the i in 1..NFrames with w*(i-1) < c <= w*i, w = total / NFrames.
FrameOf(c, total) ==
    IF c = 0 THEN {0}
    ELSE {i \in 1..NFrames : total * (i - 1) < c * NFrames /\ c * NFrames <= total * i}

AtOrBefore(pts, total, i) ==
    {k \in 1..Len(pts) : pts[k].CumTimeDiff * NFrames <= total * (i - 1)}
After(pts, total, i) ==
    {k \in 1..Len(pts) : pts[k].CumTimeDiff * NFrames > total * i}

Last(S) == CHOOSE k \in S : \A j \in S : j <= k
First(S) == CHOOSE k \in S : \A j \in S : k <= j

\* Window i of route R holds no raw point and has both brackets.
Bracketed(R, i) ==
    /\ RawInWindow(RoutePoints(R), Total(R), i) = {}
    /\ AtOrBefore(RoutePoints(R), Total(R), i) # {}
    /\ After(RoutePoints(R), Total(R), i) # {}

RowsOf(R) == {k \in 1..Len(Out) : Out[k].CodeRoute = R}

SynthesizedRows == {k \in 1..Len(Out) : Out[k].Point.idx > 0}

\* The end bracket a synthesised row was computed from.
EndOf(k) ==
    LET pts == RoutePoints(Out[k].CodeRoute)
    IN  pts[CHOOSE p \in 1..Len(pts) : pts[p].Point = RawPoint(Out[k].Point.to)]

Anchored(R) == Total(R) > 0 /\ RoutePoints(R)[1].TimeDifference = 0

IsVideo == call.op = "make_video"

\* make_video has returned, or an exception has left it.
VideoOver == IsVideo /\ (ret.closed \/ ret.error # "none")

\* The rows that end a maximal run of rows with equal VideoFrame.
RunEnds ==
    {k \in 1..Len(df.rows) :
        k = Len(df.rows) \/ df.rows[k].VideoFrame # df.rows[k + 1].VideoFrame}

\* C20: on a table sorted by VideoFrame, make_video writes exactly one image
\* for every maximal run of rows with equal VideoFrame, when the last row of
\* the run has been plotted, the final run included: as many images as
\* there are distinct VideoFrame values, the last one with every point of
\* the table.
C20_RenderedFrames ==
    (VideoOver /\ "VideoFrame" \in df.cols) =>
        /\ ret.error = "none"
        /\ Len(ret.written) = Cardinality(RunEnds)
        /\ {ret.written[j] : j \in 1..Len(ret.written)} = RunEnds
        /\ Len(ret.written) =
             Cardinality({df.rows[k].VideoFrame : k \in 1..Len(df.rows)})
        /\ df.rows # <<>> => ret.written # <<>> /\
                             ret.written[Len(ret.written)] = Len(df.rows)

====
